---- MODULE Spec2Model ----
(***************************************************************************)
(* The community WebSocketManager of GarvisNeuralMind_v2                   *)
(* (src/GarvisNeuralMind_v2/src/community/websocket.py).                   *)
(*                                                                         *)
(* State: the three dictionaries of the manager, the WebSocket objects    *)
(* handed to connect, and the coroutines that are suspended at an await.   *)
(* The only suspension points of the class are `await send_text(...)`      *)
(* (and `await accept()`); one step of a coroutine is the synchronous code *)
(* between two suspension points. disconnect is a plain function and is    *)
(* therefore executed inside the step that calls it; the broadcast it      *)
(* hands to asyncio.create_task becomes a separate coroutine.              *)
(***************************************************************************)
EXTENDS Integers, Sequences, FiniteSets, TLC

\* ------------------------------------------------------------- bounds
MaxHandles == 2   \* WebSocket objects ever passed to connect
MaxTasks == 1     \* calls of connect, handle_message, broadcast tasks in progress at a time
CrowdHandles == 3 \* WebSocket objects ever passed to connect when three identities come and go
TalkTasks == 2    \* calls in progress at a time when two identities chat in one room
CascadeTasks == 2 \* calls in progress at a time when only failing sends remove identities
MaxLoops == 2     \* _update_user_activity tasks CommunityManager.start() ever creates

\* "" is a legal identity (user_id: str) and is falsy in Python
Users == {"", "u1"}
Everyone == Users \cup {"u2"}        \* with the third identity of the larger scenes
Rooms == {"r1", "r2"}
Nil == "None"                         \* a key that is missing from `data`
Contents == {<<>>, <<" ">>, <<"h">>, <<" ", "h", " ">>}

\* Python truthiness of the identifiers the handlers test with `not x`
\* (None and the empty string are falsy)
Falsy(x) == x = Nil \/ x = ""

\* the WebSocket objects the /ws route is called with
MaxSocks == 3
Socks == 1..MaxSocks

\* a websocket_endpoint call that has not begun
NewEndpoint ==
    [pc |-> "idle",
     \* observations, not program state
     accepted |-> FALSE,   \* connect added the WebSocket to the manager
     answered |-> FALSE,   \* a response of process_message was sent
     raised |-> Nil]       \* the exception that ended the receive loop

\* ------------------------------------------------------------- state
VARIABLES
    active_connections,   \* dict user_id -> WebSocket (handle number)
    connection_order,     \* the keys of active_connections in insertion order
    user_rooms,           \* dict room_id -> set of user_id
    user_to_rooms,        \* dict user_id -> set of room_id
    websockets,           \* the WebSocket objects accepted so far
    tasks,                \* suspended coroutines, by slot
    offline_pending,      \* broadcast tasks created by disconnect, not yet started
    done,                 \* the call that returned in the last step, with what it sent
    outbox,               \* per sender, the chat contents handle_message accepted, in order
    inbox,                \* per recipient, the chat_message envelopes delivered, in order
    \* CommunityManager (community/manager.py)
    running,              \* self._running
    active_users,         \* dict user_id -> age of its last-activity timestamp, in minutes
    user_order,           \* the keys of active_users in insertion order
    sweeps,               \* the _update_user_activity tasks start() has created
    \* the core WebSocketManager (core/websocket_manager.py) and main.py's /ws
    core_connections,     \* self.active_connections, a set of WebSocket
    connection_data,      \* the keys of self.connection_data
    endpoints             \* per WebSocket, where its websocket_endpoint call stands

vars == <<active_connections, connection_order, user_rooms, user_to_rooms, websockets, tasks,
          offline_pending, done, outbox, inbox, running, active_users, user_order, sweeps,
          core_connections, connection_data, endpoints>>

\* the state of the community WebSocketManager and of its observers
socket_side == <<active_connections, connection_order, user_rooms, user_to_rooms, websockets,
                 tasks, offline_pending, done, outbox, inbox>>
\* the state of the CommunityManager, which no WebSocketManager call touches
manager_side == <<running, active_users, user_order, sweeps>>

\* the state of the core WebSocketManager and of the /ws endpoint calls
core_side == <<core_connections, connection_data, endpoints>>

\* outbox and inbox are written only where two identities chat in one room,
\* the CommunityManager only where its background loop is followed, the core
\* manager only where the /ws endpoint is
hist == <<outbox, inbox, manager_side, core_side>>

Slots == DOMAIN tasks
Idle == [pc |-> "idle"]

\* ------------------------------------------------------------- dict helpers
EmptyDict == [x \in {} |-> Nil]
Del(f, k) == [x \in DOMAIN f \ {k} |-> f[x]]
Put(f, k, v) == [x \in DOMAIN f \cup {k} |-> IF x = k THEN v ELSE f[x]]
dict_get(f, k, default) == IF k \in DOMAIN f THEN f[k] ELSE default

\* str.strip() on a content given as a tuple of characters
RECURSIVE lstrip(_)
lstrip(s) == IF s # <<>> /\ Head(s) = " " THEN lstrip(Tail(s)) ELSE s
RECURSIVE rstrip(_)
rstrip(s) == IF s # <<>> /\ s[Len(s)] = " " THEN rstrip(SubSeq(s, 1, Len(s) - 1)) ELSE s
strip(s) == rstrip(lstrip(s))

\* ------------------------------------------------------------- envelopes
Env(type, room_id, user_id, content, message) ==
    [type |-> type, room_id |-> room_id, user_id |-> user_id,
     content |-> content, message |-> message]
ErrorEnv(message) == Env("error", Nil, Nil, <<>>, message)
NoEnv == Env(Nil, Nil, Nil, <<>>, Nil)

\* ------------------------------------------------------------- messages
\* `data` of handle_message: the keys the handlers of this model read
Data(type, room_id, content, status) ==
    [type |-> type, room_id |-> room_id, content |-> content, status |-> status]

RoomIds == Rooms \cup {Nil}
Messages ==
    {Data("chat_message", r, c, Nil) : r \in RoomIds, c \in Contents}
    \cup {Data(ty, r, <<>>, Nil) :
            ty \in {"join_room", "leave_room", "typing_indicator"}, r \in RoomIds}
    \cup {Data("user_status", Nil, <<>>, s) : s \in {"away", "dancing"}}
    \cup {Data(ty, Nil, <<>>, Nil) : ty \in {"ping", Nil}}

message_handlers ==
    {"chat_message", "join_room", "leave_room", "typing_indicator", "user_status",
     "community_update", "post_update"}

\* ------------------------------------------------------------- coroutines
\* S: the dictionaries as a coroutine step sees and changes them; off collects
\* the user ids for which disconnect created an offline broadcast task.
Dicts == [ac |-> active_connections, ord |-> connection_order, ur |-> user_rooms,
          utr |-> user_to_rooms, off |-> <<>>]

NoData == [type |-> Nil, room_id |-> Nil, content |-> <<>>, status |-> Nil]

NewTask(op, user_id, data) ==
    [op |-> op, user_id |-> user_id,
     pc |-> "start",
     penv |-> NoEnv,          \* envelope of the personal send in flight
     next |-> "return",       \* what the handler does after its personal send
     benv |-> NoEnv,          \* envelope of the broadcast
     room |-> Nil,            \* room whose member set is iterated (Nil: active_connections)
     exclude |-> Nil,         \* exclude_user
     snap |-> {},             \* the collection when its iterator was created
     visited |-> {},          \* elements the iterator has passed
     failed |-> {},           \* disconnected_users
     dead |-> FALSE,          \* the iterated set object was emptied and dropped
     reins |-> FALSE,         \* a key already yielded was deleted and inserted again
     target |-> Nil, ws |-> 0,  \* recipient and WebSocket of the send in flight
     \* observations, not program state
     data |-> data,           \* the message handled
     path |-> "",             \* branch the handler took
     \* when the call was made: was user_id registered, its rooms by
     \* user_to_rooms, its rooms by user_rooms, the members of data.room_id
     registered |-> user_id \in DOMAIN active_connections,
     rooms_of |-> dict_get(user_to_rooms, user_id, {}),
     member_of |-> {r \in DOMAIN user_rooms : user_id \in user_rooms[r]},
     members |-> dict_get(user_rooms, data.room_id, {}),
     changed |-> {},          \* the dictionaries this call has changed
     raised |-> "no",         \* "caught" by handle_message, or "escaped" to the caller
     log |-> {},              \* sends attempted: [to, type, ok]
     twice |-> FALSE]         \* some recipient was sent the same envelope twice

Outcome(S, t) == [S |-> S, t |-> t]
Return(S, t) == {Outcome(S, [t EXCEPT !.pc = "done", !.target = Nil, !.ws = 0])}

\* _remove_user_from_room without its `del self.user_rooms[room_id]`
remove_user_from_room_keeps_empty(S, user_id, room_id) ==
    LET ur1 == IF room_id \in DOMAIN S.ur /\ user_id \in S.ur[room_id]
               THEN [S.ur EXCEPT ![room_id] = @ \ {user_id}]
               ELSE S.ur
        utr1 == IF user_id \in DOMAIN S.utr /\ room_id \in S.utr[user_id]
                THEN [S.utr EXCEPT ![user_id] = @ \ {room_id}]
                ELSE S.utr
    IN  [S EXCEPT !.ur = ur1, !.utr = utr1]

\* ---- _remove_user_from_room
remove_user_from_room(S, user_id, room_id) ==
    LET ur1 == IF room_id \in DOMAIN S.ur /\ user_id \in S.ur[room_id]
               THEN LET m == S.ur[room_id] \ {user_id}
                    IN  IF m = {} THEN Del(S.ur, room_id)
                                  ELSE [S.ur EXCEPT ![room_id] = m]
               ELSE S.ur
        utr1 == IF user_id \in DOMAIN S.utr /\ room_id \in S.utr[user_id]
                THEN [S.utr EXCEPT ![user_id] = @ \ {room_id}]
                ELSE S.utr
    IN  [S EXCEPT !.ur = ur1, !.utr = utr1]

RECURSIVE remove_from_rooms(_, _, _)
remove_from_rooms(S, user_id, rooms) ==
    IF rooms = {} THEN S
    ELSE LET r == CHOOSE x \in rooms : TRUE
         IN  remove_from_rooms(remove_user_from_room(S, user_id, r), user_id, rooms \ {r})

\* ---- disconnect
disconnect(S, user_id) ==
    IF user_id \in DOMAIN S.ac
    THEN LET S1 == remove_from_rooms(S, user_id, dict_get(S.utr, user_id, {}))
         IN  [S1 EXCEPT !.ac = Del(S1.ac, user_id),
                        !.ord = SelectSeq(S1.ord, LAMBDA k : k # user_id),
                        !.utr = IF user_id \in DOMAIN S1.utr THEN Del(S1.utr, user_id)
                                ELSE S1.utr,
                        !.off = Append(S1.off, user_id)]
    ELSE S

\* the envelope of the broadcast task that disconnect(user_id) creates
offline_message(user_id) == Env("user_offline", Nil, user_id, <<>>, Nil)

\* for user_id in disconnected_users: self.disconnect(user_id)
RECURSIVE disconnect_all(_, _)
disconnect_all(S, users) ==
    IF users = {} THEN S
    ELSE LET u == CHOOSE x \in users : TRUE
         IN  disconnect_all(disconnect(S, u), users \ {u})

\* ---- an exception leaves the running handler
\* Under handle_message the `except Exception` branch sends an error envelope
\* with send_personal_message; connect and the offline task have no handler.
Raise(S, t) ==
    IF t.op = "handle_message"
    THEN IF t.user_id \in DOMAIN S.ac
         THEN {Outcome(S, [t EXCEPT !.pc = "except_send", !.raised = "caught",
                                    !.penv = ErrorEnv("Error processing"),
                                    !.target = t.user_id, !.ws = S.ac[t.user_id]])}
         ELSE Return(S, [t EXCEPT !.raised = "caught"])
    ELSE Return(S, [t EXCEPT !.raised = "escaped"])

\* ---- the loop of broadcast_to_room / broadcast_to_all, from one send to the next
excluded(t, k) == ~Falsy(t.exclude) /\ k = t.exclude

\* the failed recipients are disconnected only after the loop ended normally
end_pass(S, t) == Return(disconnect_all(S, t.failed), t)

\* `for user_id in self.user_rooms[room_id]`: a set iterator raises RuntimeError
\* when the size of its set differs from the size at its creation; elements
\* are yielded in no particular order; members without a connection and the
\* excluded user are passed without a send.
room_next(S, t) ==
    IF t.dead \/ Cardinality(S.ur[t.room]) # Cardinality(t.snap)
    THEN Raise(S, t)
    ELSE LET cur == S.ur[t.room]
             unv == cur \ t.visited
             silent == {k \in unv : excluded(t, k) \/ k \notin DOMAIN S.ac}
         IN  UNION {
               {Outcome(S, [t EXCEPT !.pc = "pass", !.visited = t.visited \cup P \cup {k},
                                     !.target = k, !.ws = S.ac[k]])
                  : k \in unv \ silent}
               \cup (IF ((unv \ P) \cap t.snap) = {}
                     THEN end_pass(S, [t EXCEPT !.visited = t.visited \cup P])
                     ELSE {})
               : P \in SUBSET silent }

\* `for user_id, websocket in self.active_connections.items()`: the keys come in
\* insertion order; RuntimeError when the dict changed size, or when more keys
\* turn up than it had at the start.
RECURSIVE all_next(_, _)
all_next(S, t) ==
    IF Cardinality(DOMAIN S.ac) # Cardinality(t.snap)
    THEN Raise(S, t)
    ELSE LET rest == SelectSeq(S.ord, LAMBDA k : k \notin t.visited)
         IN  IF rest = <<>>
             THEN IF t.reins THEN Raise(S, t) ELSE end_pass(S, t)
             ELSE IF Cardinality(t.visited) >= Cardinality(t.snap)
             THEN Raise(S, t)
             ELSE LET k == Head(rest)
                      t1 == [t EXCEPT !.visited = @ \cup {k}]
                  IN  IF excluded(t, k) THEN all_next(S, t1)
                      ELSE {Outcome(S, [t1 EXCEPT !.pc = "pass", !.target = k,
                                                  !.ws = S.ac[k]])}

iter_next(S, t) == IF t.room = Nil THEN all_next(S, t) ELSE room_next(S, t)

\* ---- broadcast_to_room
broadcast_to_room(S, t, room_id, message, exclude_user) ==
    IF room_id \notin DOMAIN S.ur
    THEN Return(S, [t EXCEPT !.benv = message])
    ELSE room_next(S, [t EXCEPT !.benv = message, !.room = room_id,
                                !.exclude = exclude_user, !.snap = S.ur[room_id],
                                !.visited = {}, !.failed = {}, !.next = "return"])

\* ---- broadcast_to_all
broadcast_to_all(S, t, message, exclude_user) ==
    all_next(S, [t EXCEPT !.benv = message, !.room = Nil, !.exclude = exclude_user,
                          !.snap = DOMAIN S.ac,
                          !.visited = {}, !.failed = {}, !.next = "return"])

\* ---- what each caller of send_personal_message does once it has returned
after_personal(S, t) ==
    CASE t.next = "broadcast_to_room" ->
            broadcast_to_room(S, t, t.benv.room_id, t.benv, t.exclude)
      [] t.next = "broadcast_to_all" ->
            broadcast_to_all(S, t, t.benv, t.exclude)
      [] OTHER -> Return(S, t)

\* ---- send_personal_message: suspends at send_text when user_id is registered
send_personal_message(S, t, message, next) ==
    IF t.user_id \in DOMAIN S.ac
    THEN {Outcome(S, [t EXCEPT !.pc = "send_personal", !.penv = message, !.next = next,
                               !.target = t.user_id, !.ws = S.ac[t.user_id]])}
    ELSE after_personal(S, [t EXCEPT !.next = next])

\* ------------------------------------------------------------- handlers
\* the test of _handle_chat_message on the content as received, not stripped
chat_fields_missing_unstripped(data) == Falsy(data.room_id) \/ data.content = <<>>

\* `if not room_id or not content` of _handle_chat_message
chat_fields_missing(data) == Falsy(data.room_id) \/ strip(data.content) = <<>>

\* _handle_chat_message without its membership test
not_in_room_skipped(S, user_id, room_id) == FALSE

\* `room_id not in self.user_to_rooms.get(user_id, set())`
not_in_room(S, user_id, room_id) == room_id \notin dict_get(S.utr, user_id, {})

\* _handle_chat_message handing its broadcast to asyncio.create_task instead of
\* awaiting it: the call is over for the receive loop while the sends go on
handle_chat_message_detached(S, t, data) ==
    IF chat_fields_missing(data)
    THEN send_personal_message(S, [t EXCEPT !.path = "chat_required"],
                               ErrorEnv("Room ID and content are required"), "return")
    ELSE IF not_in_room(S, t.user_id, data.room_id)
    THEN send_personal_message(S, [t EXCEPT !.path = "chat_not_member"],
                               ErrorEnv("You are not in this room"), "return")
    ELSE broadcast_to_room(S, [t EXCEPT !.path = "chat_broadcast", !.op = "create_task"],
                           data.room_id,
                           Env("chat_message", data.room_id, t.user_id,
                               strip(data.content), Nil), Nil)

handle_chat_message(S, t, data) ==
    IF chat_fields_missing(data)
    THEN send_personal_message(S, [t EXCEPT !.path = "chat_required"],
                               ErrorEnv("Room ID and content are required"), "return")
    ELSE IF not_in_room(S, t.user_id, data.room_id)
    THEN send_personal_message(S, [t EXCEPT !.path = "chat_not_member"],
                               ErrorEnv("You are not in this room"), "return")
    ELSE broadcast_to_room(S, [t EXCEPT !.path = "chat_broadcast"], data.room_id,
                           Env("chat_message", data.room_id, t.user_id,
                               strip(data.content), Nil), Nil)

\* _handle_join_room answering a join of a room the identity is already in
\* with an error envelope
handle_join_room_once(S, t, data) ==
    IF Falsy(data.room_id)
    THEN send_personal_message(S, [t EXCEPT !.path = "join_required"],
                               ErrorEnv("Room ID is required"), "return")
    ELSE LET r == data.room_id
             ur1 == IF r \in DOMAIN S.ur THEN [S.ur EXCEPT ![r] = @ \cup {t.user_id}]
                    ELSE Put(S.ur, r, {t.user_id})
         IN  IF t.user_id \notin DOMAIN S.utr
             THEN Raise([S EXCEPT !.ur = ur1], [t EXCEPT !.path = "join_keyerror"])
             ELSE IF r \in S.utr[t.user_id]
             THEN send_personal_message(S, [t EXCEPT !.path = "join_again"],
                                        ErrorEnv("Already in this room"), "return")
             ELSE send_personal_message(
                      [S EXCEPT !.ur = ur1, !.utr = [S.utr EXCEPT ![t.user_id] = @ \cup {r}]],
                      [t EXCEPT !.path = "join",
                                !.benv = Env("user_joined_room", r, t.user_id, <<>>, Nil),
                                !.exclude = t.user_id],
                      Env("room_joined", r, Nil, <<>>, Nil), "broadcast_to_room")

handle_join_room(S, t, data) ==
    IF Falsy(data.room_id)
    THEN send_personal_message(S, [t EXCEPT !.path = "join_required"],
                               ErrorEnv("Room ID is required"), "return")
    ELSE LET r == data.room_id
             ur1 == IF r \in DOMAIN S.ur THEN [S.ur EXCEPT ![r] = @ \cup {t.user_id}]
                    ELSE Put(S.ur, r, {t.user_id})
         IN  IF t.user_id \notin DOMAIN S.utr
             THEN \* self.user_to_rooms[user_id] raises KeyError after the room was changed
                  Raise([S EXCEPT !.ur = ur1], [t EXCEPT !.path = "join_keyerror"])
             ELSE send_personal_message(
                      [S EXCEPT !.ur = ur1, !.utr = [S.utr EXCEPT ![t.user_id] = @ \cup {r}]],
                      [t EXCEPT !.path = "join",
                                !.benv = Env("user_joined_room", r, t.user_id, <<>>, Nil),
                                !.exclude = t.user_id],
                      Env("room_joined", r, Nil, <<>>, Nil), "broadcast_to_room")

\* _handle_leave_room removing the identity from the room named first in
\* user_rooms instead of the room it was asked to leave
handle_leave_room_any(S, t, data) ==
    IF Falsy(data.room_id)
    THEN Return(S, [t EXCEPT !.path = "leave_no_room"])
    ELSE send_personal_message(
             IF \E r \in DOMAIN S.ur : t.user_id \in S.ur[r]
             THEN remove_user_from_room(S, t.user_id,
                                        CHOOSE r \in DOMAIN S.ur : t.user_id \in S.ur[r])
             ELSE S,
             [t EXCEPT !.path = "leave",
                       !.benv = Env("user_left_room", data.room_id, t.user_id, <<>>, Nil),
                       !.exclude = Nil],
             Env("room_left", data.room_id, Nil, <<>>, Nil), "broadcast_to_room")

handle_leave_room(S, t, data) ==
    IF Falsy(data.room_id)
    THEN Return(S, [t EXCEPT !.path = "leave_no_room"])
    ELSE send_personal_message(
             remove_user_from_room(S, t.user_id, data.room_id),
             [t EXCEPT !.path = "leave",
                       !.benv = Env("user_left_room", data.room_id, t.user_id, <<>>, Nil),
                       !.exclude = Nil],
             Env("room_left", data.room_id, Nil, <<>>, Nil), "broadcast_to_room")

handle_typing_indicator(S, t, data) ==
    IF Falsy(data.room_id) \/ not_in_room(S, t.user_id, data.room_id)
    THEN Return(S, [t EXCEPT !.path = "typing_ignored"])
    ELSE broadcast_to_room(S, [t EXCEPT !.path = "typing"], data.room_id,
                           Env("typing_indicator", data.room_id, t.user_id, <<>>, Nil),
                           t.user_id)

handle_user_status(S, t, data) ==
    IF data.status \notin {"online", "away", "busy", "invisible"}
    THEN Return(S, [t EXCEPT !.path = "status_ignored"])
    ELSE broadcast_to_all(S, [t EXCEPT !.path = "status"],
                          Env("user_status_update", Nil, t.user_id, <<>>, data.status),
                          t.user_id)

\* handle_message dispatching every tag, registered or not
has_handler_any(message_type) == message_type = message_type

\* `if message_type in self.message_handlers`
has_handler(message_type) == message_type \in message_handlers

\* ---- handle_message, up to its first suspension
handle_message(S, t, data) ==
    IF has_handler(data.type)
    THEN CASE data.type = "chat_message" -> handle_chat_message(S, t, data)
           [] data.type = "join_room" -> handle_join_room(S, t, data)
           [] data.type = "leave_room" -> handle_leave_room(S, t, data)
           [] data.type = "typing_indicator" -> handle_typing_indicator(S, t, data)
           [] data.type = "user_status" -> handle_user_status(S, t, data)
           \* community_update and post_update notifications are not sent by
           \* the clients of this model
           [] OTHER -> Return(S, t)
    ELSE send_personal_message(S, [t EXCEPT !.path = "unknown"],
                               ErrorEnv("Unknown message type"), "return")

\* ---- connect, from the return of accept() to the welcome send
connect(S, t, websocket) ==
    send_personal_message(
        [S EXCEPT !.ac = Put(S.ac, t.user_id, websocket),
                  !.ord = IF t.user_id \in DOMAIN S.ac THEN S.ord
                          ELSE Append(S.ord, t.user_id),
                  !.utr = Put(S.utr, t.user_id, {})],
        [t EXCEPT !.path = "connect",
                  !.benv = Env("user_online", Nil, t.user_id, <<>>, Nil),
                  !.exclude = Nil],
        Env("connection_established", Nil, t.user_id, <<>>, Nil), "broadcast_to_all")

\* ---- send_text returns, or raises; on a WebSocket that has raised once it
\* raises again (ok is the outcome the transport gives this send)
send_ok(ws, ok) == ok /\ ~websockets[ws].broken

Sent(t, ok) ==
    LET type == IF t.pc = "pass" THEN t.benv.type ELSE t.penv.type
    IN  [t EXCEPT !.log = @ \cup {[to |-> t.target, type |-> type, ok |-> ok]},
                  !.twice = @ \/ \E e \in t.log : e.to = t.target /\ e.type = type]

\* send_personal_message after its send_text: a failure disconnects user_id
resume_personal(S, t, ok) ==
    IF send_ok(t.ws, ok)
    THEN after_personal(S, Sent(t, TRUE))
    ELSE after_personal(disconnect(S, t.user_id), Sent(t, FALSE))

\* the error send of handle_message's except branch
resume_except(S, t, ok) ==
    IF send_ok(t.ws, ok) THEN Return(S, Sent(t, TRUE))
    ELSE Return(disconnect(S, t.user_id), Sent(t, FALSE))

\* a send inside a broadcast loop: a failure is noted in disconnected_users
resume_pass(S, t, ok) ==
    IF send_ok(t.ws, ok) THEN iter_next(S, Sent(t, TRUE))
    ELSE iter_next(S, [Sent(t, FALSE) EXCEPT !.failed = @ \cup {t.target}])

\* ------------------------------------------------------------- steps
FreeSlot(i) == tasks[i] = Idle /\ \A j \in Slots : j < i => tasks[j] # Idle

RECURSIVE CountIn(_, _)
CountIn(s, u) == IF s = <<>> THEN 0
                 ELSE (IF Head(s) = u THEN 1 ELSE 0) + CountIn(Tail(s), u)

\* What a step of one coroutine does to the iterators of the others: a room set
\* that is emptied is dropped from user_rooms (a later room of that name is a
\* new set object); a key inserted again into active_connections lands behind
\* the position of an iterator that has already yielded it.
Disturbed(t, S) ==
    IF t.pc # "pass" THEN t
    ELSE IF t.room # Nil
    THEN [t EXCEPT !.dead = @ \/ t.room \notin DOMAIN S.ur]
    ELSE [t EXCEPT !.reins = @ \/ (t.visited \cap (DOMAIN S.ac \ DOMAIN active_connections)) # {}]

Changed(S) ==
    {n \in {"active_connections"} : S.ac # active_connections}
    \cup {n \in {"user_rooms"} : S.ur # user_rooms}
    \cup {n \in {"user_to_rooms"} : S.utr # user_to_rooms}

\* started: the user id whose offline broadcast task starts in this step, or Nil
Store(S, started) ==
    /\ active_connections' = S.ac
    /\ connection_order' = S.ord
    /\ user_rooms' = S.ur
    /\ user_to_rooms' = S.utr
    /\ offline_pending' = [u \in Everyone |-> offline_pending[u] + CountIn(S.off, u)
                                           - (IF u = started THEN 1 ELSE 0)]

\* The step of the coroutine in slot i ends in `out`: suspended again, or returned.
\* what is kept of a call that has returned
Summary(t) ==
    [pc |-> "done", op |-> t.op, user_id |-> t.user_id, data |-> t.data,
     path |-> t.path, registered |-> t.registered, rooms_of |-> t.rooms_of,
     member_of |-> t.member_of, members |-> t.members,
     changed |-> t.changed, raised |-> t.raised,
     reply |-> t.penv, env |-> t.benv, snap |-> t.snap,
     log |-> t.log, twice |-> t.twice]

Commit(i, out, started) ==
    LET t2 == [out.t EXCEPT !.changed = @ \cup Changed(out.S)]
    IN  /\ Store(out.S, started)
        /\ tasks' = [j \in Slots |-> IF j = i
                                     THEN (IF t2.pc = "done" THEN Idle ELSE t2)
                                     ELSE Disturbed(tasks[j], out.S)]
        /\ done' = IF t2.pc = "done" THEN Summary(t2) ELSE Idle

\* A call is made: it runs in a free slot up to its first suspension point.
Begin(outs, started) ==
    \E i \in Slots : FreeSlot(i) /\ \E out \in outs : Commit(i, out, started)

\* A WebSocket that was accepted belongs to a receive loop of its user, which
\* awaits connect, then each handle_message, and calls disconnect at its end:
\* a loop that is inside one of its calls makes no other call.
HasSocket(u) == \E h \in 1..Len(websockets) : websockets[h].user_id = u
InCall(u) ==
    Cardinality({j \in Slots : /\ tasks[j] # Idle
                               /\ tasks[j].op \in {"connect", "handle_message"}
                               /\ tasks[j].user_id = u})
StreamFree(u) ==
    InCall(u) < Cardinality({h \in 1..Len(websockets) : websockets[h].user_id = u})

\* ---- a client connects: connect(websocket, user_id) with a new WebSocket
Connect(u, handles) ==
    /\ Len(websockets) < handles
    /\ websockets' = Append(websockets, [user_id |-> u, broken |-> FALSE, closed |-> FALSE])
    /\ Begin(connect(Dicts, NewTask("connect", u, NoData), Len(websockets) + 1), Nil)

\* ---- the receive loop of a connection of u passes a message to handle_message
HandleMessage(u, data) ==
    /\ StreamFree(u)
    /\ Begin(handle_message(Dicts, NewTask("handle_message", u, data), data), Nil)
    /\ UNCHANGED websockets

\* ---- the receive loop of a connection of u ends (its peer is gone) and the
\* owner of the manager calls disconnect(user_id), registered or not
Disconnect(u) ==
    /\ StreamFree(u)
    /\ Store(disconnect(Dicts, u), Nil)
    /\ tasks' = [j \in Slots |-> Disturbed(tasks[j], disconnect(Dicts, u))]
    /\ done' = Summary([NewTask("disconnect", u, NoData) EXCEPT
                           !.path = "disconnect", !.changed = Changed(disconnect(Dicts, u))])
    /\ websockets' = IF u \in DOMAIN active_connections
                     THEN [websockets EXCEPT ![active_connections[u]].broken = TRUE]
                     ELSE websockets

\* ---- the event loop starts a broadcast task created by disconnect
StartOffline(u) ==
    /\ offline_pending[u] > 0
    /\ Begin(broadcast_to_all(Dicts,
                              [NewTask("broadcast_to_all", u, NoData) EXCEPT !.path = "offline"],
                              offline_message(u), Nil), u)
    /\ UNCHANGED websockets

\* ---- a suspended send_text returns (ok) or raises
Transport(i, ok) ==
    websockets' = [websockets EXCEPT ![tasks[i].ws].broken = @ \/ ~ok]

ResumePersonal(i, ok) ==
    /\ tasks[i].pc = "send_personal"
    /\ \E out \in resume_personal(Dicts, tasks[i], ok) : Commit(i, out, Nil)
    /\ Transport(i, ok)

ResumeExcept(i, ok) ==
    /\ tasks[i].pc = "except_send"
    /\ \E out \in resume_except(Dicts, tasks[i], ok) : Commit(i, out, Nil)
    /\ Transport(i, ok)

ResumePass(i, ok) ==
    /\ tasks[i].pc = "pass"
    /\ \E out \in resume_pass(Dicts, tasks[i], ok) : Commit(i, out, Nil)
    /\ Transport(i, ok)

Start(slots) ==
    /\ active_connections = EmptyDict
    /\ connection_order = <<>>
    /\ user_rooms = EmptyDict
    /\ user_to_rooms = EmptyDict
    /\ websockets = <<>>
    /\ tasks = [i \in 1..slots |-> Idle]
    /\ offline_pending = [u \in Everyone |-> 0]
    /\ done = Idle
    /\ outbox = [u \in Everyone |-> <<>>]
    /\ inbox = [u \in Everyone |-> <<>>]
    /\ running = FALSE
    /\ active_users = EmptyDict
    /\ user_order = <<>>
    /\ sweeps = <<>>
    /\ core_connections = {}
    /\ connection_data = {}
    /\ endpoints = [w \in Socks |-> NewEndpoint]

Init == Start(MaxTasks)

Next ==
    \/ \E u \in Users : Connect(u, MaxHandles) /\ UNCHANGED hist
    \/ \E u \in Users, data \in Messages : HandleMessage(u, data) /\ UNCHANGED hist
    \/ \E u \in Users : Disconnect(u) /\ UNCHANGED hist
    \/ \E u \in Users : StartOffline(u) /\ UNCHANGED hist
    \/ \E i \in Slots, ok \in BOOLEAN : ResumePersonal(i, ok) /\ UNCHANGED hist
    \/ \E i \in Slots, ok \in BOOLEAN : ResumeExcept(i, ok) /\ UNCHANGED hist
    \/ \E i \in Slots, ok \in BOOLEAN : ResumePass(i, ok) /\ UNCHANGED hist

Spec == Init /\ [][Next]_vars

\* Three identities that connect and go away and send no messages: the traffic
\* of connect, disconnect and the user_online / user_offline broadcasts.
NextPresence ==
    \/ \E u \in Everyone : Connect(u, CrowdHandles) /\ UNCHANGED hist
    \/ \E u \in Everyone : Disconnect(u) /\ UNCHANGED hist
    \/ \E u \in Everyone : StartOffline(u) /\ UNCHANGED hist
    \/ \E i \in Slots, ok \in BOOLEAN : ResumePersonal(i, ok) /\ UNCHANGED hist
    \/ \E i \in Slots, ok \in BOOLEAN : ResumePass(i, ok) /\ UNCHANGED hist

SpecPresence == Init /\ [][NextPresence]_vars

\* Two identities in one room: each joins and sends each of two lines at most
\* once, its receive loop awaiting every handle_message before the next; up to
\* TalkTasks calls are in progress at a time; nobody goes away and every send
\* returns.
Lines == {<<"h">>, <<"g">>}
Talk == {Data("join_room", "r1", <<>>, Nil)}
        \cup {Data("chat_message", "r1", c, Nil) : c \in Lines}

\* handle_message takes a chat_message of u: noted in the order of acceptance
Accept(u, data) ==
    /\ outbox' = IF data.type = "chat_message"
                 THEN [outbox EXCEPT ![u] = Append(@, data.content)]
                 ELSE outbox
    /\ UNCHANGED <<inbox, manager_side, core_side>>

\* the send_text of a chat_message envelope to the target of slot i returned
Deliver(i, ok) ==
    /\ inbox' = IF tasks[i].benv.type = "chat_message" /\ send_ok(tasks[i].ws, ok)
                THEN [inbox EXCEPT ![tasks[i].target] =
                         Append(@, [user_id |-> tasks[i].benv.user_id,
                                    room_id |-> tasks[i].benv.room_id,
                                    content |-> tasks[i].benv.content])]
                ELSE inbox
    /\ UNCHANGED <<outbox, manager_side, core_side>>

NextTalk ==
    \/ \E u \in Users : Connect(u, MaxHandles) /\ UNCHANGED hist
    \/ \E u \in Users, data \in Talk :
          /\ InCall(u) = 0
          /\ \A n \in 1..Len(outbox[u]) : outbox[u][n] # data.content
          /\ HandleMessage(u, data)
          /\ Accept(u, data)
    \/ \E i \in Slots : ResumePersonal(i, TRUE) /\ UNCHANGED hist
    \/ \E i \in Slots : ResumeExcept(i, TRUE) /\ UNCHANGED hist
    \/ \E i \in Slots : ResumePass(i, TRUE) /\ Deliver(i, TRUE)

SpecTalk == Start(TalkTasks) /\ [][NextTalk]_vars

\* Three identities that connect while nobody's endpoint calls disconnect:
\* the only removals are those of failing sends, and up to CascadeTasks calls
\* of connect and user_offline broadcast tasks are in progress at a time.
NextCascade ==
    \/ \E u \in Everyone : Connect(u, CrowdHandles) /\ UNCHANGED hist
    \/ \E u \in Everyone : StartOffline(u) /\ UNCHANGED hist
    \/ \E i \in Slots, ok \in BOOLEAN : ResumePersonal(i, ok) /\ UNCHANGED hist
    \/ \E i \in Slots, ok \in BOOLEAN : ResumePass(i, ok) /\ UNCHANGED hist

SpecCascade == Start(CascadeTasks) /\ [][NextCascade]_vars

\* ------------------------------------------------- CommunityManager
\* community/manager.py: active_users and the background task
\* _update_user_activity. Time is counted in minutes; a timestamp is kept as
\* its age, which stops growing once it is older than the threshold.
Uids == {1, 2}
Threshold == 5    \* timedelta(minutes=5)
Interval == 1     \* asyncio.sleep(60)

\* `last_seen < cutoff` with cutoff = utcnow() - 5 minutes
older_than_cutoff(age) == age > Threshold

\* `[uid for uid, last_seen in self.active_users.items() if last_seen < cutoff]`
inactive_users(au, ord) == SelectSeq(ord, LAMBDA uid : older_than_cutoff(au[uid]))

\* a task of _update_user_activity that create_task has scheduled
NewSweep ==
    [pc |-> "created",
     rest |-> <<>>,        \* inactive_users not yet reached by the for loop
     user_id |-> 0,        \* the identity whose cache write is awaited
     left |-> 0,           \* minutes until asyncio.sleep returns
     \* observations, not program state
     failed |-> FALSE,     \* the iteration before this sleep ended in `except`
     left_over |-> {}]     \* stale identities the last failed iteration did not reach

Range(q) == {q[n] : n \in 1..Len(q)}

\* an iteration that lets its exception end the task
on_exception_fatal(l, au) ==
    [l EXCEPT !.pc = "crashed", !.rest = <<>>, !.user_id = 0, !.failed = TRUE,
              !.left_over = Range(l.rest) \cap DOMAIN au]

\* `except Exception`: log, then asyncio.sleep(60) and the next `while` test
on_exception(l, au) ==
    [l EXCEPT !.pc = "sleep", !.left = Interval, !.rest = <<>>, !.user_id = 0,
              !.failed = TRUE, !.left_over = Range(l.rest) \cap DOMAIN au]

\* the for loop up to its next await: `del self.active_users[user_id]` raises
\* KeyError when another task has removed the key meanwhile
RECURSIVE remove_next(_, _, _)
remove_next(l, au, ord) ==
    IF l.rest = <<>>
    THEN [l |-> [l EXCEPT !.pc = "sleep", !.left = Interval, !.user_id = 0],
          au |-> au, ord |-> ord]
    ELSE LET uid == Head(l.rest)
         IN  IF uid \notin DOMAIN au
             THEN [l |-> on_exception(l, au), au |-> au, ord |-> ord]
             ELSE [l |-> [l EXCEPT !.pc = "cache", !.user_id = uid, !.rest = Tail(l.rest)],
                   au |-> Del(au, uid),
                   ord |-> SelectSeq(ord, LAMBDA k : k # uid)]

\* one pass of the `while self._running` body, up to its first await
sweep(l, au, ord) ==
    remove_next([l EXCEPT !.rest = inactive_users(au, ord), !.failed = FALSE], au, ord)

StoreSweep(i, out) ==
    /\ sweeps' = [sweeps EXCEPT ![i] = out.l]
    /\ active_users' = out.au
    /\ user_order' = out.ord

\* ---- start(): sets _running and creates the background tasks
StartManager ==
    /\ Len(sweeps) < MaxLoops
    /\ running' = TRUE
    /\ sweeps' = Append(sweeps, NewSweep)
    /\ UNCHANGED <<active_users, user_order>>

\* ---- stop()
StopManager ==
    /\ running' = FALSE
    /\ UNCHANGED <<active_users, user_order, sweeps>>

\* ---- register_user_activity(user_id), up to its await of the cache write,
\* whose outcome changes nothing in the manager
RegisterUserActivity(uid) ==
    /\ active_users' = Put(active_users, uid, 0)
    /\ user_order' = IF uid \in DOMAIN active_users THEN user_order
                     ELSE Append(user_order, uid)
    /\ UNCHANGED <<running, sweeps>>

\* ---- a minute passes
Tick ==
    /\ active_users' = [uid \in DOMAIN active_users |->
                           IF older_than_cutoff(active_users[uid]) THEN active_users[uid]
                           ELSE active_users[uid] + 1]
    /\ sweeps' = [i \in DOMAIN sweeps |->
                     IF sweeps[i].pc = "sleep" /\ sweeps[i].left > 0
                     THEN [sweeps[i] EXCEPT !.left = @ - 1] ELSE sweeps[i]]
    /\ UNCHANGED <<running, user_order>>

\* ---- task i runs for the first time, or its asyncio.sleep returns: the
\* `while self._running` test, then one pass up to its first await
Wake(i) ==
    /\ i \in DOMAIN sweeps
    /\ sweeps[i].pc = "created" \/ (sweeps[i].pc = "sleep" /\ sweeps[i].left = 0)
    /\ IF running
       THEN StoreSweep(i, sweep(sweeps[i], active_users, user_order))
       ELSE /\ sweeps' = [sweeps EXCEPT ![i] = [@ EXCEPT !.pc = "exited", !.failed = FALSE]]
            /\ UNCHANGED <<active_users, user_order>>
    /\ UNCHANGED running

\* ---- the cache write `await cache_user_online_status(user_id, False)` of
\* task i returns (ok) or raises
CacheReturn(i, ok) ==
    /\ i \in DOMAIN sweeps
    /\ sweeps[i].pc = "cache"
    /\ IF ok
       THEN StoreSweep(i, remove_next(sweeps[i], active_users, user_order))
       ELSE StoreSweep(i, [l |-> on_exception(sweeps[i], active_users),
                           au |-> active_users, ord |-> user_order])
    /\ UNCHANGED running

NextSweep ==
    \/ StartManager /\ UNCHANGED <<socket_side, core_side>>
    \/ StopManager /\ UNCHANGED <<socket_side, core_side>>
    \/ \E uid \in Uids : RegisterUserActivity(uid) /\ UNCHANGED <<socket_side, core_side>>
    \/ Tick /\ UNCHANGED <<socket_side, core_side>>
    \/ \E i \in 1..MaxLoops : Wake(i) /\ UNCHANGED <<socket_side, core_side>>
    \/ \E i \in 1..MaxLoops, ok \in BOOLEAN : CacheReturn(i, ok) /\ UNCHANGED <<socket_side, core_side>>

\* The event loop runs every task that can run, and time passes.
FairSweep ==
    /\ WF_vars(Tick /\ UNCHANGED <<socket_side, core_side>>)
    /\ \A i \in 1..MaxLoops :
          /\ WF_vars(Wake(i) /\ UNCHANGED <<socket_side, core_side>>)
          /\ WF_vars(\E ok \in BOOLEAN : CacheReturn(i, ok) /\ UNCHANGED <<socket_side, core_side>>)

SpecSweep == Init /\ [][NextSweep]_vars /\ FairSweep

\* ------------------------------------------------- core /ws endpoint
\* main.py websocket_endpoint with core/websocket_manager.py connect,
\* disconnect and send_personal_message. An awaited call either returns or
\* raises; what send_text raises on a dead connection depends on the server
\* stack (WebSocketDisconnect, or another Exception such as RuntimeError).
SendOutcomes == {"sent", "WebSocketDisconnect", "Exception"}
ReceiveOutcomes == {"text", "unloadable", "WebSocketDisconnect"}

\* disconnect(websocket): both removals are guarded
core_disconnect(w) ==
    /\ core_connections' = core_connections \ {w}
    /\ connection_data' = connection_data \ {w}

At(w, pc) == endpoints[w].pc = pc
Goto(w, pc) == endpoints' = [endpoints EXCEPT ![w].pc = pc]

\* the exception leaves websocket_endpoint: only WebSocketDisconnect is caught
\* there, and its handler calls disconnect
Leave(w, exc) ==
    /\ endpoints' = [endpoints EXCEPT ![w].pc = "ended", ![w].raised = exc]
    /\ IF exc = "WebSocketDisconnect" THEN core_disconnect(w)
       ELSE UNCHANGED <<core_connections, connection_data>>

\* ---- the route is called: connect awaits websocket.accept()
OpenSocket(w) ==
    /\ At(w, "idle")
    /\ Goto(w, "accept")
    /\ UNCHANGED <<core_connections, connection_data>>

\* ---- accept() returns: connect registers the WebSocket and awaits the
\* send of the welcome message; or accept() raises, outside the try
AcceptReturn(w, ok) ==
    /\ At(w, "accept")
    /\ IF ok
       THEN /\ core_connections' = core_connections \cup {w}
            /\ connection_data' = connection_data \cup {w}
            /\ endpoints' = [endpoints EXCEPT ![w].pc = "welcome", ![w].accepted = TRUE]
       ELSE /\ endpoints' = [endpoints EXCEPT ![w].pc = "ended", ![w].raised = "Exception"]
            /\ UNCHANGED <<core_connections, connection_data>>

\* ---- the welcome send returns or raises: send_personal_message catches
\* every Exception and disconnects; the endpoint goes on to receive_text
WelcomeReturn(w, out) ==
    /\ At(w, "welcome")
    /\ Goto(w, "receive")
    /\ IF out = "sent" THEN UNCHANGED <<core_connections, connection_data>>
       ELSE core_disconnect(w)

\* ---- receive_text returns a text that loads, one that makes safe_load or
\* message_data.get raise, or raises WebSocketDisconnect
ReceiveReturn(w, out) ==
    /\ At(w, "receive")
    /\ CASE out = "text" ->
              Goto(w, "process") /\ UNCHANGED <<core_connections, connection_data>>
         [] out = "unloadable" ->
              Goto(w, "error_reply") /\ UNCHANGED <<core_connections, connection_data>>
         [] OTHER -> Leave(w, "WebSocketDisconnect")

\* ---- ai_manager.process_message returns or raises
ProcessReturn(w, ok) ==
    /\ At(w, "process")
    /\ Goto(w, IF ok THEN "reply" ELSE "error_reply")
    /\ UNCHANGED <<core_connections, connection_data>>

\* ---- the send of the response returns, or raises into `except Exception`
ReplyReturn(w, out) ==
    /\ At(w, "reply")
    /\ IF out = "sent"
       THEN endpoints' = [endpoints EXCEPT ![w].pc = "receive", ![w].answered = TRUE]
       ELSE Goto(w, "error_reply")
    /\ UNCHANGED <<core_connections, connection_data>>

\* ---- the send of the processing_error reply returns, or raises out of the
\* inner handler
ErrorReplyReturn(w, out) ==
    /\ At(w, "error_reply")
    /\ IF out = "sent"
       THEN Goto(w, "receive") /\ UNCHANGED <<core_connections, connection_data>>
       ELSE Leave(w, out)

NextCore ==
    \/ \E w \in Socks : OpenSocket(w) /\ UNCHANGED <<socket_side, manager_side>>
    \/ \E w \in Socks, ok \in BOOLEAN :
          AcceptReturn(w, ok) /\ UNCHANGED <<socket_side, manager_side>>
    \/ \E w \in Socks, out \in SendOutcomes :
          WelcomeReturn(w, out) /\ UNCHANGED <<socket_side, manager_side>>
    \/ \E w \in Socks, out \in ReceiveOutcomes :
          ReceiveReturn(w, out) /\ UNCHANGED <<socket_side, manager_side>>
    \/ \E w \in Socks, ok \in BOOLEAN :
          ProcessReturn(w, ok) /\ UNCHANGED <<socket_side, manager_side>>
    \/ \E w \in Socks, out \in SendOutcomes :
          ReplyReturn(w, out) /\ UNCHANGED <<socket_side, manager_side>>
    \/ \E w \in Socks, out \in SendOutcomes :
          ErrorReplyReturn(w, out) /\ UNCHANGED <<socket_side, manager_side>>

SpecCore == Init /\ [][NextCore]_vars

\* ============================================================= properties

Returned == done.pc = "done"
Handled(type) == Returned /\ done.op = "handle_message" /\ done.data.type = type
Registered(u) == u \in DOMAIN active_connections
InRoom(u, r) == r \in DOMAIN user_rooms /\ u \in user_rooms[r]
HasRoom(u, r) == u \in DOMAIN user_to_rooms /\ r \in user_to_rooms[u]
Live(h) == ~websockets[h].closed /\ ~websockets[h].broken
HandlesOf(u) == {h \in 1..Len(websockets) : websockets[h].user_id = u}

\* C1: for all identities I and rooms R, I is in user_rooms[R] if and only if
\* R is in user_to_rooms[I], in every reachable state.
C1_BidirectionalMembership ==
    \A I \in Users, R \in Rooms : InRoom(I, R) <=> HasRoom(I, R)

C3_OneLiveHandle ==
    \A I \in Users : Cardinality({h \in HandlesOf(I) : Live(h)}) <= 1

\* C4: when disconnect(I) of a registered identity I has returned, I is in no
\* room's member set and has no user_to_rooms entry.
C4_DisconnectCleans ==
    (Returned /\ done.op = "disconnect" /\ done.registered) =>
        /\ \A R \in Rooms : ~InRoom(done.user_id, R)
        /\ done.user_id \notin DOMAIN user_to_rooms

\* ---- what the claims say about a message, stated without the handlers' code
NonBlank(c) == \E i \in 1..Len(c) : c[i] # " "
Trimmed(c) ==
    LET ix == {i \in 1..Len(c) : c[i] # " "}
    IN  IF ix = {} THEN <<>>
        ELSE SubSeq(c, CHOOSE i \in ix : \A j \in ix : i <= j,
                       CHOOSE i \in ix : \A j \in ix : j <= i)
Maps == {"user_rooms", "user_to_rooms"}
\* the sender was sent exactly one envelope, an error, and nobody else anything
OnlyErrorToSender ==
    /\ \E ok \in BOOLEAN :
          done.log = {[to |-> done.user_id, type |-> "error", ok |-> ok]}
    /\ ~done.twice
\* the one send to the sender returned
Delivered == \A e \in done.log : e.ok

\* C5 (as claimed): a chat_message of a registered identity I to a room it has
\* not joined sends an error envelope to I only, delivers no chat_message, and
\* leaves the membership maps unchanged.
C5_NotInRoomRejected ==
    (/\ Handled("chat_message") /\ done.registered
     /\ done.data.room_id \in Rooms /\ NonBlank(done.data.content)
     /\ done.data.room_id \notin (done.rooms_of \cup done.member_of))
    => /\ OnlyErrorToSender
       /\ done.reply = ErrorEnv("You are not in this room")
       /\ done.changed \cap Maps = {}

\* C5 (amended): ... sends the error envelope "not in this room" to I only;
\* the call leaves the dictionaries unchanged when that send returns, and when
\* it raises I has been disconnected.
C5_NotInRoomRejectedAmended ==
    (/\ Handled("chat_message") /\ done.registered
     /\ done.data.room_id \in Rooms /\ NonBlank(done.data.content)
     /\ done.data.room_id \notin (done.rooms_of \cup done.member_of))
    => /\ OnlyErrorToSender
       /\ done.reply = ErrorEnv("You are not in this room")
       /\ IF Delivered THEN done.changed = {} ELSE ~Registered(done.user_id)

\* C5 witness: I is in one room, chats to the other one and gets the error
C5_Witness ==
    /\ Handled("chat_message") /\ done.registered
    /\ done.data.room_id \in Rooms /\ NonBlank(done.data.content)
    /\ done.data.room_id \notin (done.rooms_of \cup done.member_of)
    /\ done.rooms_of # {}
    /\ done.log = {[to |-> done.user_id, type |-> "error", ok |-> TRUE]}

\* C6: a chat_message of a registered identity whose content is empty or blank,
\* or whose room_id is missing, sends an error envelope to the sender and is
\* sent to nobody as a chat_message, also when the sender is in the room.
C6_BlankChatRejected ==
    (/\ Handled("chat_message") /\ done.registered
     /\ (done.data.room_id = Nil \/ ~NonBlank(done.data.content)))
    => /\ OnlyErrorToSender
       /\ done.reply = ErrorEnv("Room ID and content are required")

\* C6 witness: a blank chat_message to a room with two members, one the sender
C6_Witness ==
    /\ Handled("chat_message") /\ done.registered
    /\ done.data.content = <<" ">>
    /\ done.data.room_id \in done.rooms_of
    /\ Cardinality(done.members) = 2
    /\ done.log = {[to |-> done.user_id, type |-> "error", ok |-> TRUE]}

\* C7: when a member I of room R sends a chat_message with non-blank content,
\* every member of R that can be sent to gets exactly one chat_message envelope
\* with user_id I, room R and the trimmed content, and nobody else gets it.
C7_ChatFanOut ==
    (/\ Handled("chat_message")
     /\ done.registered
     /\ done.data.room_id \in Rooms /\ NonBlank(done.data.content)
     /\ done.data.room_id \in done.rooms_of
     /\ done.user_id \in done.members)
    => /\ done.env = Env("chat_message", done.data.room_id, done.user_id,
                         Trimmed(done.data.content), Nil)
       /\ ~done.twice
       /\ \A e \in done.log : e.type = "chat_message" => e.to \in done.members
       /\ \A k \in done.members :
             (Registered(k) /\ Live(active_connections[k])
                            /\ InRoom(k, done.data.room_id))
             => [to |-> k, type |-> "chat_message", ok |-> TRUE] \in done.log

\* C8: a registered identity gets a reply (an acknowledgment, an echo or an
\* error envelope) to every message it passes to handle_message, except in the
\* cases the specification leaves without one: a redundant leave, a
\* typing_indicator of a member, a user_status.
C8_NoSilentDrop ==
    (/\ Returned /\ done.op = "handle_message" /\ done.registered)
    => \/ \E e \in done.log : e.to = done.user_id
       \/ /\ done.data.type = "leave_room" /\ done.data.room_id \in Rooms
          /\ done.data.room_id \notin (done.rooms_of \cup done.member_of)
       \/ /\ done.data.type = "typing_indicator"
          /\ done.data.room_id \in done.rooms_of
       \/ done.data.type = "user_status"

\* C9: a chat_message, join_room, leave_room or typing_indicator of a registered
\* identity that lacks a required field sends an error envelope to the sender
\* and to nobody else, and changes no membership.
C9_MissingField ==
    (/\ Returned /\ done.op = "handle_message" /\ done.registered
     /\ \/ /\ done.data.type = "chat_message"
           /\ (done.data.room_id = Nil \/ done.data.content = <<>>)
        \/ /\ done.data.type \in {"join_room", "leave_room", "typing_indicator"}
           /\ done.data.room_id = Nil)
    => /\ OnlyErrorToSender
       /\ Delivered => done.changed \cap Maps = {}

\* C10 (as claimed): a message whose type is absent or has no handler sends
\* exactly one error envelope to the (registered) sender, runs no handler and
\* leaves the registry and both membership maps unchanged.
C10_UnknownTag ==
    (/\ Returned /\ done.op = "handle_message" /\ done.registered
     /\ done.data.type \notin message_handlers)
    => /\ OnlyErrorToSender
       /\ done.reply = ErrorEnv("Unknown message type")
       /\ done.path = "unknown"
       /\ done.changed = {}

\* C10 (amended): ... sends exactly one error envelope to the sender and runs no
\* handler; the registry and the membership maps are unchanged when that send
\* returns, and when it raises the sender has been disconnected.
C10_UnknownTagAmended ==
    (/\ Returned /\ done.op = "handle_message" /\ done.registered
     /\ done.data.type \notin message_handlers)
    => /\ OnlyErrorToSender
       /\ done.reply = ErrorEnv("Unknown message type")
       /\ done.path = "unknown"
       /\ IF Delivered THEN done.changed = {} ELSE ~Registered(done.user_id)

\* C10 witness: a member of a room sends a message without a type
C10_Witness ==
    /\ Returned /\ done.op = "handle_message" /\ done.registered
    /\ done.data.type = Nil
    /\ done.rooms_of # {}
    /\ done.log = {[to |-> done.user_id, type |-> "error", ok |-> TRUE]}

\* C11: when connect(I) returns, I has been sent connection_established and no
\* user_online, and every other registered connection has been sent the
\* user_online envelope naming I.
C11_ConnectNotifies ==
    (Returned /\ done.op = "connect")
    => /\ \E e \in done.log : e.to = done.user_id /\ e.type = "connection_established"
       /\ \A e \in done.log : e.type = "user_online" => e.to # done.user_id
       /\ done.env.type = "user_online" => done.env.user_id = done.user_id
       /\ \A K \in DOMAIN active_connections \ {done.user_id} :
             Live(active_connections[K])
             => [to |-> K, type |-> "user_online", ok |-> TRUE] \in done.log

\* a broadcast of `env` is in progress, or is a task created and not yet started
InProgress(env) == \E j \in Slots : tasks[j] # Idle /\ tasks[j].benv = env
Scheduled(env) == \E u \in Everyone : offline_pending[u] > 0 /\ offline_message(u) = env

\* C12: when disconnect(I) has removed I from a room R in which a registered
\* member K remains, a user_left_room envelope naming I and R has been sent to K
\* or is carried by a broadcast that is in progress or scheduled.
C12_LeftRoomOnDisconnect ==
    \A K \in Users, R \in Rooms :
        (/\ Returned /\ done.op = "disconnect" /\ done.registered
         /\ R \in done.rooms_of /\ K # done.user_id /\ InRoom(K, R) /\ Registered(K))
        => LET env == Env("user_left_room", R, done.user_id, <<>>, Nil)
           IN  \/ \E e \in done.log : e.to = K /\ e.type = "user_left_room"
               \/ InProgress(env)
               \/ Scheduled(env)

\* C13: every removal of I from the registry creates exactly one user_offline
\* broadcast and nothing else does; when that broadcast has returned, every
\* connection that was registered throughout has been sent user_offline naming
\* I once; disconnect of an unregistered identity raises nothing, changes
\* nothing and creates no broadcast.
C13_OfflineOncePerRemoval ==
    [][ /\ \A I \in Everyone :
              IF Registered(I) /\ I \notin DOMAIN active_connections'
              THEN offline_pending'[I] = offline_pending[I] + 1
              ELSE offline_pending'[I] <= offline_pending[I]
        /\ (done'.pc = "done" /\ done'.op = "broadcast_to_all")
           => /\ done'.env = offline_message(done'.user_id)
              /\ ~done'.twice
              /\ \A K \in (done'.snap \cap DOMAIN active_connections') \ {done'.user_id} :
                    ~websockets'[active_connections'[K]].broken
                    => [to |-> K, type |-> "user_offline", ok |-> TRUE] \in done'.log
        /\ (done'.pc = "done" /\ done'.op = "disconnect" /\ ~done'.registered)
           => /\ done'.raised = "no" /\ done'.changed = {} /\ done'.log = {}
              /\ offline_pending' = offline_pending
      ]_vars

\* the identities a send of the returned call failed for
FailedSends == {e.to : e \in {x \in done.log : ~x.ok}}

\* C14: when a send to X failed inside send_personal_message, broadcast_to_room
\* or broadcast_to_all, the call that made it returns without an exception, X
\* is then in no dictionary (registry, rooms), and every other recipient of
\* the same broadcast was sent the envelope.
C14_FailureIsDisconnect ==
    (Returned /\ FailedSends # {})
    => /\ done.raised = "no"
       /\ \A X \in FailedSends :
             /\ ~Registered(X)
             /\ X \notin DOMAIN user_to_rooms
             /\ \A R \in Rooms : ~InRoom(X, R)
       /\ \A K \in done.snap \ FailedSends :
             (/\ Registered(K) /\ Live(active_connections[K])
              /\ ~(done.op = "handle_message" /\ K = done.user_id
                   /\ done.data.type \in {"join_room", "typing_indicator", "user_status"}))
             => [to |-> K, type |-> done.env.type, ok |-> TRUE] \in done.log

\* the chat_message envelope of sender I with content c, as an inbox entry
Chat(I, c) == [user_id |-> I, room_id |-> "r1", content |-> c]

\* C15: when handle_message has returned for a chat_message m1 of I before it
\* takes I's chat_message m2 to the same room, every identity that is sent
\* both is sent m1 before m2, whatever calls of other connections overlap.
C15_PerSenderOrder ==
    \A I \in Users, K \in Users :
        \A a \in 1..Len(outbox[I]), b \in 1..Len(outbox[I]) :
            a < b =>
            \A p \in 1..Len(inbox[K]), q \in 1..Len(inbox[K]) :
                (/\ inbox[K][p] = Chat(I, outbox[I][a])
                 /\ inbox[K][q] = Chat(I, outbox[I][b]))
                => p < q

\* C15 witness: K was sent both lines of I, and a line of another sender between
C15_Witness ==
    \E I \in Users : \E K \in Users \ {I} :
        /\ Len(outbox[I]) = 2
        /\ \E p \in 1..Len(inbox[K]), r \in 1..Len(inbox[K]), q \in 1..Len(inbox[K]) :
              /\ p < r /\ r < q
              /\ inbox[K][p] = Chat(I, outbox[I][1])
              /\ inbox[K][r].user_id # I
              /\ inbox[K][q] = Chat(I, outbox[I][2])
        /\ \E j \in Slots : tasks[j] # Idle /\ tasks[j].user_id # I
                            /\ tasks[j].op = "handle_message"

\* C16: an exception raised while a handler processes a message, also inside a
\* broadcast it performs, is caught by handle_message and an error envelope is
\* sent to the originating identity; handle_message itself never raises.
C16_ErrorsStopAtBoundary ==
    (Returned /\ done.op = "handle_message")
    => /\ done.raised # "escaped"
       /\ done.raised = "caught"
          => \E ok \in BOOLEAN :
                [to |-> done.user_id, type |-> "error", ok |-> ok] \in done.log

\* a join_room of a registered identity for a room it has already joined
SecondJoin ==
    /\ Handled("join_room") /\ done.registered
    /\ done.data.room_id \in Rooms
    /\ done.data.room_id \in (done.rooms_of \cap done.member_of)

LeaveByNonMember ==
    /\ Handled("leave_room")
    /\ done.data.room_id \in Rooms
    /\ done.data.room_id \notin (done.rooms_of \cup done.member_of)

C19_JoinNotifications ==
    (Handled("join_room") /\ done.registered /\ done.data.room_id \in Rooms)
    => /\ \E ok \in BOOLEAN :
             [to |-> done.user_id, type |-> "room_joined", ok |-> ok] \in done.log
       /\ done.reply.type = "room_joined" => done.reply.room_id = done.data.room_id
       /\ done.env = Env("user_joined_room", done.data.room_id, done.user_id, <<>>, Nil)
       /\ \A k \in done.members \ {done.user_id} :
             (Registered(k) /\ Live(active_connections[k])
                            /\ InRoom(k, done.data.room_id))
             => [to |-> k, type |-> "user_joined_room", ok |-> TRUE] \in done.log
       /\ \A e \in done.log :
             e.type = "user_joined_room"
             => e.to # done.user_id /\ e.to \in done.members

\* C20: a typing_indicator of a member I of room R is sent to every other
\* member of R that can be sent to and never to I, whatever the identity value
\* (the empty string included), and I is sent no acknowledgment; from a
\* non-member, or without room_id, nothing is sent to anyone.
C20_TypingIndicator ==
    Handled("typing_indicator")
    => /\ (/\ done.data.room_id \in Rooms
           /\ done.data.room_id \in (done.rooms_of \cap done.member_of))
          => /\ \A k \in done.members \ {done.user_id} :
                   (Registered(k) /\ Live(active_connections[k])
                                  /\ InRoom(k, done.data.room_id))
                   => [to |-> k, type |-> "typing_indicator", ok |-> TRUE] \in done.log
             /\ \A e \in done.log :
                   /\ e.to # done.user_id
                   /\ e.to \in done.members
                   /\ e.type = "typing_indicator"
       /\ (\/ done.data.room_id = Nil
           \/ done.data.room_id \notin (done.rooms_of \cup done.member_of))
          => done.log = {}

\* the status values _handle_user_status broadcasts
Statuses == {"online", "away", "busy", "invisible"}

\* C21: a user_status with a status in {online, away, busy, invisible} is sent
\* as user_status_update to every registered connection except the sender;
\* any other status value sends nothing, no error envelope either, and changes
\* no state.
C21_UserStatus ==
    Handled("user_status")
    => IF done.data.status \in Statuses
       THEN /\ done.env = Env("user_status_update", Nil, done.user_id, <<>>,
                              done.data.status)
            /\ \A k \in done.snap \ {done.user_id} :
                  (Registered(k) /\ Live(active_connections[k]))
                  => [to |-> k, type |-> "user_status_update", ok |-> TRUE] \in done.log
            /\ \A e \in done.log : e.to # done.user_id
       ELSE done.log = {} /\ done.changed = {} /\ done.raised = "no"

\* the keys of the collection the pass of task t iterates, as they are in the
\* dictionaries ur (user_rooms) and ac (active_connections)
Iterated(t, ur, ac) == IF t.room # Nil THEN dict_get(ur, t.room, {}) ELSE DOMAIN ac

\* C24: while broadcast_to_all or broadcast_to_room is suspended at a send of
\* its pass, the collection it iterates is not changed, neither by the
\* broadcast itself nor by a connect, disconnect, join_room or leave_room of
\* another connection, so the pass ends without an exception.
C24_NoMutationDuringPass ==
    [][\A i \in Slots :
          tasks[i].pc = "pass"
          => /\ Iterated(tasks[i], user_rooms', active_connections')
                = Iterated(tasks[i], user_rooms, active_connections)
                \/ (tasks'[i] = Idle /\ done'.raised = "no")
             /\ tasks'[i].pc # "except_send"
             /\ tasks'[i] = Idle => done'.raised = "no"]_vars

\* C26: in every reachable state, every identity in a room's member set has
\* an entry in active_connections.
C26_MembersRegistered ==
    \A r \in DOMAIN user_rooms : \A u \in user_rooms[r] : Registered(u)

\* C27: user_left_room naming I and R is sent to members of R only if I was a
\* member of R right before its leave_room was handled; a leave_room of an
\* identity that is not in R sends no such event.
C27_NoSpuriousLeave ==
    LeaveByNonMember
    => [to |-> done.user_id, type |-> "user_left_room", ok |-> TRUE] \notin done.log
       /\ \A k \in done.members :
              [to |-> k, type |-> "user_left_room", ok |-> TRUE] \notin done.log

\* no coroutine is suspended and no broadcast task waits to be started
Quiet == (\A i \in Slots : tasks[i] = Idle) /\ (\A u \in Everyone : offline_pending[u] = 0)

\* C28: the chain of disconnects and user_offline broadcast tasks that failing
\* sends set off ends: once no broadcast task is pending, every connection
\* whose send failed has been removed from the registry.
C28_CascadeEnds ==
    Quiet => \A u \in DOMAIN active_connections : ~websockets[active_connections[u]].broken

\* the step removes uid's presence record
Removed(uid) == uid \in DOMAIN active_users /\ uid \notin DOMAIN active_users'

\* C22: for each identity the presence sweep removes as inactive, an offline
\* notification for that identity is broadcast to the connected clients (a
\* broadcast is started, or a broadcast task is created, by the removal).
C22_SweepBroadcastsOffline ==
    [][\A uid \in Uids :
          Removed(uid) => (tasks' # tasks \/ offline_pending' # offline_pending)]_vars

\* the tasks of _update_user_activity that have begun and not ended
LiveSweeps == {i \in DOMAIN sweeps : sweeps[i].pc \in {"cache", "sleep"}}

\* the last iteration of task i ended in an exception and no further one began
FailedIteration(i) == i \in DOMAIN sweeps /\ sweeps[i].failed

\* C23: an iteration of the sweep that raises does not end the task: while
\* the manager is running the task always begins a further iteration, and an
\* identity that is stale, the ones the failed iteration did not reach
\* included, is removed by a later iteration (unless it is refreshed).
C23_SweepGoesOn ==
    /\ [](\A i \in DOMAIN sweeps : sweeps[i].pc # "crashed")
    /\ \A i \in 1..MaxLoops :
          (FailedIteration(i) /\ running) ~> (~FailedIteration(i) \/ ~running)
    /\ \A uid \in Uids :
          (running /\ uid \in DOMAIN active_users /\ older_than_cutoff(active_users[uid]))
          ~> (\/ uid \notin DOMAIN active_users
              \/ ~older_than_cutoff(active_users[uid])
              \/ ~running)

\* C23 witness: a task whose iteration failed has begun a further one, which
\* is removing an identity the failed iteration had not reached
C23_Witness ==
    \E i \in DOMAIN sweeps :
        /\ running
        /\ sweeps[i].pc = "cache" /\ ~sweeps[i].failed
        /\ sweeps[i].user_id \in sweeps[i].left_over

\* C25: _update_user_activity removes a presence record only if its timestamp
\* is older than the 5-minute threshold at the moment of the removal; a record
\* refreshed while the sweep awaits a cache write is not removed.
C25_OnlyStaleRemoved ==
    [][\A uid \in Uids : Removed(uid) => older_than_cutoff(active_users[uid])]_vars

\* C30: whatever the sequence of start() and stop() calls, at most one task of
\* _update_user_activity is running at any time.
C30_SingleSweepLoop == Cardinality(LiveSweeps) <= 1

\* C29: a WebSocket that connect registered is in neither active_connections
\* nor connection_data of the core manager once its websocket_endpoint call
\* has ended, whichever exception ended the receive loop.
C29_NoLeakedConnection ==
    \A w \in Socks :
        (endpoints[w].pc = "ended" /\ endpoints[w].accepted)
        => (w \notin core_connections /\ w \notin connection_data)

====
